---- MODULE Spec2Model ----
(***************************************************************************)
(* Blackjack environments with a finite shoe and a Halves running count:   *)
(*   task01/blackjack_with_double_counting.py        (single-hand class)   *)
(*   task01/blackjack_with_double_counting_split.py  (split class)         *)
(*                                                                         *)
(* Representation.                                                         *)
(*  - Every float of the program (count, rewards, the Halves weights) is a *)
(*    multiple of 0.5 and is held here as the integer number of halves:    *)
(*    count = 3 stands for 1.5, reward = -4 stands for -2.0.  Sums of such *)
(*    values are exact in binary floating point, so nothing is lost.       *)
(*  - The shoe (self.deck, a Python list) is held as the number of cards   *)
(*    of each rank: list.pop(random index) can yield any rank present, and *)
(*    list.pop(list.index(card)) removes one card of that rank or raises   *)
(*    ValueError when there is none.                                       *)
(*  - One environment object is modelled; `variant` says which of the two  *)
(*    classes it is an instance of.  The record `env` holds its fields     *)
(*    (the union of the fields of the two classes).                        *)
(*  - A Python exception ends the call where it is raised; the fields keep *)
(*    what was written before it.  ret.exc names it.                       *)
(***************************************************************************)
EXTENDS Integers, Sequences, FiniteSets, TLC

VARIABLES
    variant,   \* "single" or "split": the class of the environment object
    env,       \* the object's fields, plus the in-call bookkeeping below
    rng,       \* the ranks the random source yields in this behaviour
    ret,       \* what the last call did and returned
    calls,     \* reset()/step() calls the driver still makes
    rounds     \* rounds the driver still starts

vars == <<variant, env, rng, ret, calls, rounds>>

----------------------------------------------------------------------------
(* Bounds of the exploration *)

\* calls and rounds of a behaviour of the single-hand class
SingleCalls == 3

SingleRounds == 1

\* calls and rounds of a behaviour of the split class
SplitCalls == 4

SplitRounds == 1

\* calls of a behaviour with an early reshuffle
ShoeCalls == 4

\* num_decks ranges over 1..MaxDecks there, and shuffle_on over
\* 52 * num_decks - s for s in 0..MaxSlack
MaxDecks == 1

MaxSlack == 6

\* the longest hand given to the hand functions
MaxHandLen == 3

\* calls made to two objects driven side by side (both objects' calls counted)
\* and rounds of the first of them
SeedCalls == 4

SeedRounds == 1

\* the period of the random sources of that behaviour
StreamLen == 5

\* the ranks those sources yield
StreamRanks == {6, 10}

\* calls and rounds of a behaviour that goes on calling step() after the end
\* of a round
LateCalls == 3

LateRounds == 1

\* calls and rounds of a behaviour that deals a one-deck shoe to its end, and
\* the largest reshuffle threshold of such a behaviour
DrainCalls == 20

DrainRounds == 10

MaxThreshold == 2

\* the families of ranks the random source is restricted to, one per behaviour
RankSets == { {1, 6}, {1, 10}, {6, 10}, {9, 10}, {5, 6, 10} }

----------------------------------------------------------------------------
(* Module-level helpers of both files *)

Ranks == 1..10

\* deck = [1, 2, ..., 10, 10, 10, 10]
deck == <<1, 2, 3, 4, 5, 6, 7, 8, 9, 10, 10, 10, 10>>

RECURSIVE SumSeq(_)
SumSeq(s) == IF s = <<>> THEN 0 ELSE Head(s) + SumSeq(Tail(s))

InHand(c, hand) == \E i \in 1..Len(hand) : hand[i] = c

cmp(a, b) == (IF a > b THEN 1 ELSE 0) - (IF a < b THEN 1 ELSE 0)

usable_ace(hand) == InHand(1, hand) /\ SumSeq(hand) + 10 <= 21

sum_hand(hand) == IF usable_ace(hand) THEN SumSeq(hand) + 10 ELSE SumSeq(hand)

is_bust(hand) == sum_hand(hand) > 21

\* score without the test for a bust hand
score_mut(hand) == sum_hand(hand)

\* return 0 if is_bust(hand) else sum_hand(hand)
score(hand) == IF is_bust(hand) THEN 0 ELSE sum_hand(hand)

\* is_natural with any two-card hand holding a ten taken for a natural
is_natural_mut(hand) == Len(hand) = 2 /\ InHand(10, hand)

\* sorted(hand) == [1, 10]
is_natural(hand) ==
    /\ Len(hand) = 2
    /\ \/ hand[1] = 1 /\ hand[2] = 10
       \/ hand[1] = 10 /\ hand[2] = 1

\* the Halves weights, in halves: 1:-1, 2:0.5, 3:1, 4:1, 5:1.5, 6:1, 7:0.5, 8:0, 9:-0.5, 10:-1
halves == <<-2, 1, 2, 2, 3, 2, 1, 0, -1, -2>>

----------------------------------------------------------------------------
(* The shoe *)

\* number of cards of rank r in the list `cards`
Occurrences(cards, r) == Cardinality({i \in 1..Len(cards) : cards[i] = r})

\* reset_deck with every rank, the ten included, 4 * num_decks times
reset_deck_mut(num_decks) == [r \in Ranks |-> 4 * num_decks]

\* [1, ..., 10, 10, 10, 10] * 4 * num_decks
reset_deck(num_decks) == [r \in Ranks |-> Occurrences(deck, r) * 4 * num_decks]

RECURSIVE SumTo(_, _)
SumTo(f, n) == IF n = 0 THEN 0 ELSE f[n] + SumTo(f, n - 1)

\* len(self.deck)
DeckLen(d) == SumTo(d, 10)

\* sum over the ranks of (cards of the rank in the shoe) * weight
ShoeWeight(d) == SumTo([r \in Ranks |-> d[r] * halves[r]], 10)

\* the cards of a list as numbers per rank
AsBag(cards) == [r \in Ranks |-> Occurrences(cards, r)]

RECURSIVE SumWeights(_, _)
\* the weights of the first k cards of a list
SumWeights(cards, k) == IF k = 0 THEN 0 ELSE halves[cards[k]] + SumWeights(cards, k - 1)

RECURSIVE PopCards(_, _, _)
\* for card in cards: self.deck.pop(self.deck.index(card)), from the i-th card on;
\* n is the number of cards popped before list.index raised (Len(cards) if none did)
PopCards(d, cards, i) ==
    IF i > Len(cards) THEN [deck |-> d, n |-> Len(cards)]
    ELSE IF d[cards[i]] = 0 THEN [deck |-> d, n |-> i - 1]
    ELSE PopCards([r \in Ranks |-> IF r = cards[i] THEN d[r] - 1 ELSE d[r]],
                  cards, i + 1)

\* the ranks np.random.randint(0, len(self.deck)) can select; with rng empty
\* the source selects the index of a card of the lowest rank left
DrawChoices(d) ==
    LET avail == {r \in Ranks : d[r] > 0}
    IN  IF rng = {} THEN {r \in avail : \A x \in avail : r <= x}
        ELSE IF avail \cap rng # {} THEN avail \cap rng ELSE avail

\* Result of a draw: the object after it, the card (0 if none) and the exception
Drawn(e, card, exc) == [e |-> e, card |-> card, exc |-> exc]

\* card = self.deck.pop(np.random.randint(0, len(self.deck))); return card
\* e0 is the object as draw_card was entered, e the object after the reshuffle
\* block (e0 itself when the block was skipped).
pop_random(e0, e, shuffled) ==
    IF DeckLen(e.deck) = 0 THEN {Drawn(e, 0, "ValueError")}
    ELSE { LET deck1 == [r \in Ranks |-> IF r = c THEN e.deck[r] - 1 ELSE e.deck[r]]
               event == [shuffled |-> shuffled,
                         n0 |-> DeckLen(e0.deck),
                         n1 |-> DeckLen(deck1),
                         q0 |-> ShoeWeight(e0.deck) + e0.count,
                         q1 |-> ShoeWeight(e.deck) + e.count,
                         deck1 |-> deck1,
                         live |-> AsBag(e.live),
                         card |-> c]
           IN  Drawn([e EXCEPT !.deck = deck1,
                               !.live = Append(e.live, c),
                               !.log = Append(e.log, event)],
                     c, "none")
           : c \in DrawChoices(e.deck) }

\* BlackjackDoubleCountingEnv.draw_card: the block under
\* `if len(self.deck) < self.shuffle_on`, as [e, exc]
reshuffle_single(e) ==
    LET e1 == [e EXCEPT !.deck = reset_deck(e.num_decks), !.count = 0,
                        !.fresh = reset_deck(e.num_decks), !.hole_n = 0,
                        !.seen_before = 0]
    IN  IF ~e.hands_set THEN [e |-> e1, exc |-> "AttributeError"]
        ELSE
        LET p == PopCards(e1.deck, e.player, 1)
            d == PopCards(p.deck, e.dealer, 1)
            nd == Len(e.dealer)
        IN  IF p.n < Len(e.player)
            THEN [e |-> [e1 EXCEPT !.deck = p.deck,
                                   !.count = SumWeights(e.player, p.n)],
                  exc |-> "ValueError"]
            ELSE IF d.n < nd
            THEN [e |-> [e1 EXCEPT !.deck = d.deck,
                                   !.count = SumWeights(e.player, p.n)],
                  exc |-> "ValueError"]
            ELSE [e |-> [e1 EXCEPT
                           !.deck = d.deck,
                           !.count = SumWeights(e.player, Len(e.player))
                                     + SumWeights(e.dealer, nd - 1)
                                     + (IF e.done THEN halves[e.dealer[nd]] ELSE 0),
                           !.hole_n = IF ~e.stale_dealer /\ (nd > 2 \/ e.done)
                                      THEN 1 ELSE 0],
                  exc |-> "none"]

\* BlackjackDoubleCountingEnv.draw_card
draw_card_single(e) ==
    IF DeckLen(e.deck) < e.shuffle_on
    THEN LET r == reshuffle_single(e)
         IN  IF r.exc # "none" THEN {Drawn(r.e, 0, r.exc)}
             ELSE pop_random(e, r.e, TRUE)
    ELSE pop_random(e, e, FALSE)

\* BlackjackDoubleCountingSplitEnv.draw_card: the block under
\* `if len(self.deck) < self.shuffle_on`, as [e, exc]
reshuffle_split(e) ==
    LET e1 == [e EXCEPT !.deck = reset_deck(e.num_decks), !.count = 0,
                        !.fresh = reset_deck(e.num_decks), !.hole_n = 0,
                        !.seen_before = 0]
    IN  IF ~e.hands_set THEN [e |-> e1, exc |-> "TypeError"]
        ELSE
        LET l == PopCards(e1.deck, e.player_left, 1)
            r == PopCards(l.deck, e.player_right, 1)
            d == PopCards(r.deck, e.dealer, 1)
            nd == Len(e.dealer)
        IN  IF l.n < Len(e.player_left)
            THEN [e |-> [e1 EXCEPT !.deck = l.deck,
                                   !.count = SumWeights(e.player_left, l.n)],
                  exc |-> "ValueError"]
            ELSE IF r.n < Len(e.player_right)
            THEN [e |-> [e1 EXCEPT !.deck = r.deck,
                                   !.count = SumWeights(e.player_left, l.n)
                                             + SumWeights(e.player_right, r.n)],
                  exc |-> "ValueError"]
            ELSE IF d.n < nd
            THEN [e |-> [e1 EXCEPT !.deck = d.deck,
                                   !.count = SumWeights(e.player_left, l.n)
                                             + SumWeights(e.player_right, r.n)],
                  exc |-> "ValueError"]
            ELSE [e |-> [e1 EXCEPT
                           !.deck = d.deck,
                           !.count = SumWeights(e.player_left, l.n)
                                     + SumWeights(e.player_right, r.n)
                                     + SumWeights(e.dealer, nd - 1)
                                     + (IF e.done_left /\ e.done_right
                                        THEN halves[e.dealer[nd]] ELSE 0),
                           !.hole_n = IF ~e.stale_dealer
                                         /\ (nd > 2 \/ (e.done_left /\ e.done_right))
                                      THEN 1 ELSE 0],
                  exc |-> "none"]

\* BlackjackDoubleCountingSplitEnv.draw_card
draw_card_split(e) ==
    IF DeckLen(e.deck) < e.shuffle_on
    THEN LET r == reshuffle_split(e)
         IN  IF r.exc # "none" THEN {Drawn(r.e, 0, r.exc)}
             ELSE pop_random(e, r.e, TRUE)
    ELSE pop_random(e, e, FALSE)

\* self.draw_card(...) of the object's class
draw_card(e) ==
    IF variant = "single" THEN draw_card_single(e) ELSE draw_card_split(e)

\* draw_hand: [self.draw_card(np_random), self.draw_card(np.random)], as
\* [e, cards, exc]
draw_hand(e) ==
    UNION { IF a.exc # "none"
            THEN {[e |-> a.e, cards |-> <<>>, exc |-> a.exc]}
            ELSE { [e |-> b.e,
                    cards |-> IF b.exc = "none" THEN <<a.card, b.card>> ELSE <<>>,
                    exc |-> b.exc] : b \in draw_card(a.e) }
          : a \in draw_card(e) }

\* Result of a call or of a part of one: the object after it and the exception
Out(e, exc) == [e |-> e, exc |-> exc]

\* player_card = self.draw_card(...); self.count += self.halves[player_card]
\* of the hit, double and split branches; the caller appends the card
draw_counted(e) ==
    { IF o.exc # "none" THEN o
      ELSE Drawn([o.e EXCEPT !.count = @ + halves[o.card]], o.card, "none")
      : o \in draw_card(e) }

\* self.count += self.halves[self.dealer[1]]
count_hole(e) == [e EXCEPT !.count = @ + halves[e.dealer[2]], !.hole_n = @ + 1]

RECURSIVE dealer_play_mut(_)
\* dealer_play with the dealer's total taken without the usable ace, so that
\* the dealer draws on a soft 17
dealer_play_mut(e) ==
    IF SumSeq(e.dealer) < 17
    THEN UNION { IF o.exc # "none" THEN {Out(o.e, o.exc)}
                 ELSE dealer_play_mut([o.e EXCEPT !.dealer = Append(@, o.card)])
               : o \in draw_counted(e) }
    ELSE {Out(e, "none")}

RECURSIVE dealer_play(_)
\* while sum_hand(self.dealer) < 17: draw a card, count it, append it
dealer_play(e) ==
    IF sum_hand(e.dealer) < 17
    THEN UNION { IF o.exc # "none" THEN {Out(o.e, o.exc)}
                 ELSE dealer_play([o.e EXCEPT !.dealer = Append(@, o.card)])
               : o \in draw_counted(e) }
    ELSE {Out(e, "none")}

----------------------------------------------------------------------------
(* BlackjackDoubleCountingEnv (single hand) *)

\* Result of step(): the object after it, the exception, the reward (in halves)
Res(e, exc, reward) == [e |-> e, exc |-> exc, reward |-> reward]

\* if action == 1: hit
step_hit(e) ==
    { IF o.exc # "none" THEN Res(o.e, o.exc, 0)
      ELSE LET e1 == [o.e EXCEPT !.player = Append(@, o.card)]
           IN  IF is_bust(e1.player)
               THEN Res(count_hole([e1 EXCEPT !.done = TRUE]), "none", -2)
               ELSE Res([e1 EXCEPT !.done = FALSE], "none", 0)
      : o \in draw_counted(e) }

\* stick_reward paying 1.5 to a natural whatever the comparison
stick_reward_mut(e) ==
    IF e.natural /\ is_natural(e.player) THEN 3
    ELSE 2 * cmp(score(e.player), score(e.dealer))

\* reward = cmp(score(self.player), score(self.dealer));
\* if self.natural and is_natural(self.player) and reward == 1.: reward = 1.5
stick_reward(e) ==
    LET reward == 2 * cmp(score(e.player), score(e.dealer))
    IN  IF e.natural /\ is_natural(e.player) /\ reward = 2 THEN 3 ELSE reward

\* elif action == 0: stick
step_stick(e) ==
    { IF o.exc # "none" THEN Res(o.e, o.exc, 0)
      ELSE Res(o.e, "none", stick_reward(o.e))
      : o \in dealer_play(count_hole([e EXCEPT !.done = TRUE])) }

\* step_double without the test for a bust hand: the dealer always plays
step_double_mut(e) ==
    UNION { IF o.exc # "none" THEN {Res(o.e, o.exc, 0)}
            ELSE LET e1 == count_hole([o.e EXCEPT !.player = Append(@, o.card)])
                     e2 == [e1 EXCEPT !.done = TRUE]
                 IN  { IF d.exc # "none" THEN Res(d.e, d.exc, 0)
                       ELSE Res(d.e, "none",
                                2 * (2 * cmp(score(d.e.player), score(d.e.dealer))))
                       : d \in dealer_play(e2) }
          : o \in draw_counted(e) }

\* else: double
step_double(e) ==
    UNION { IF o.exc # "none" THEN {Res(o.e, o.exc, 0)}
            ELSE LET e1 == count_hole([o.e EXCEPT !.player = Append(@, o.card)])
                     e2 == [e1 EXCEPT !.done = TRUE]
                 IN  IF is_bust(e2.player)
                     THEN {Res(count_hole(e2), "none", -4)}
                     ELSE { IF d.exc # "none" THEN Res(d.e, d.exc, 0)
                            ELSE Res(d.e, "none",
                                     2 * (2 * cmp(score(d.e.player), score(d.e.dealer))))
                            : d \in dealer_play(e2) }
          : o \in draw_counted(e) }

\* BlackjackDoubleCountingEnv.step, after the assert on the action
step_single(e, action) ==
    IF action = 1 THEN step_hit(e)
    ELSE IF action = 0 THEN step_stick(e)
    ELSE step_double(e)

\* if len(self.deck) < self.shuffle_on: self.reset_deck(); self.count = 0.0
reset_shoe(e) ==
    IF DeckLen(e.deck) < e.shuffle_on
    THEN [e EXCEPT !.deck = reset_deck(e.num_decks), !.count = 0,
                   !.fresh = reset_deck(e.num_decks), !.seen_before = 0]
    ELSE e

\* BlackjackDoubleCountingEnv.reset
reset_single(e) ==
    LET e1 == reset_shoe([e EXCEPT !.done = FALSE])
    IN  UNION { IF d.exc # "none" THEN {Out(d.e, d.exc)}
                ELSE LET e2 == [d.e EXCEPT !.dealer = d.cards,
                                           !.stale_dealer = FALSE,
                                           !.count = @ + halves[d.cards[1]]]
                     IN  { IF p.exc # "none" THEN Out(p.e, p.exc)
                           ELSE Out([p.e EXCEPT
                                       !.player = p.cards,
                                       !.hands_set = TRUE,
                                       !.count = @ + halves[p.cards[1]]
                                                   + halves[p.cards[2]]],
                                    "none")
                           : p \in draw_hand(e2) }
              : d \in draw_hand(e1) }

----------------------------------------------------------------------------
(* BlackjackDoubleCountingSplitEnv *)

\* cmp(score(hand), score(self.dealer)), raised to 1.5 for a winning natural
natural_reward(e, hand) ==
    LET reward == 2 * cmp(score(hand), score(e.dealer))
    IN  IF e.natural /\ is_natural(hand) /\ reward = 2 THEN 3 ELSE reward

\* action == 1, `if not(self.done_left)`
hit_left(e) ==
    { IF o.exc # "none" THEN Out(o.e, o.exc)
      ELSE LET e1 == [o.e EXCEPT !.player_left = Append(@, o.card)]
           IN  IF is_bust(e1.player_left)
               THEN LET e2 == [e1 EXCEPT !.done_left = TRUE, !.reward_left = -2]
                    IN  Out(IF e2.done_right THEN count_hole(e2) ELSE e2, "none")
               ELSE Out([e1 EXCEPT !.done_left = FALSE, !.reward_left = 0], "none")
      : o \in draw_counted(e) }

\* `if self.reward_left < -1e-5`: the guard of the dealer's play after the
\* right hand went bust on a hit
left_needs_dealer(e) == e.reward_left < 0

\* action == 1, `elif not(self.done_right)`
hit_right(e) ==
    UNION { IF o.exc # "none" THEN {Out(o.e, o.exc)}
            ELSE LET e1 == [o.e EXCEPT !.player_right = Append(@, o.card)]
                 IN  IF is_bust(e1.player_right)
                     THEN LET e2 == count_hole([e1 EXCEPT !.done_right = TRUE,
                                                          !.reward_right = -2])
                          IN  IF left_needs_dealer(e2)
                              THEN { IF d.exc # "none" THEN d
                                     ELSE Out([d.e EXCEPT !.reward_left =
                                                 2 * cmp(score(d.e.player_left),
                                                         score(d.e.dealer))],
                                              "none")
                                     : d \in dealer_play(e2) }
                              ELSE {Out(e2, "none")}
                     ELSE {Out([e1 EXCEPT !.done_right = FALSE,
                                          !.reward_right = 0], "none")}
          : o \in draw_counted(e) }

\* stick_left playing the dealer at once, whether or not the right hand is
\* still to be played
stick_left_mut(e) ==
    LET e1 == [e EXCEPT !.done_left = TRUE]
    IN  { IF d.exc # "none" THEN d
          ELSE Out([d.e EXCEPT !.reward_left =
                      natural_reward(d.e, d.e.player_left)], "none")
          : d \in dealer_play(count_hole(e1)) }

\* action == 0, `if not(self.done_left)`
stick_left(e) ==
    LET e1 == [e EXCEPT !.done_left = TRUE]
    IN  IF e1.done_right
        THEN { IF d.exc # "none" THEN d
               ELSE Out([d.e EXCEPT !.reward_left =
                           natural_reward(d.e, d.e.player_left)], "none")
               : d \in dealer_play(count_hole(e1)) }
        ELSE {Out(e1, "none")}

\* action == 0, `elif not(self.done_right)`
stick_right(e) ==
    { IF d.exc # "none" THEN d
      ELSE Out([d.e EXCEPT
                  !.reward_left = natural_reward(d.e, d.e.player_left),
                  !.reward_right = natural_reward(d.e, d.e.player_right)], "none")
      : d \in dealer_play(count_hole([e EXCEPT !.done_right = TRUE])) }

\* action == 2, `if not(self.done_left)`
double_left(e) ==
    UNION { IF o.exc # "none" THEN {Out(o.e, o.exc)}
            ELSE LET e1 == [o.e EXCEPT !.player_left = Append(@, o.card),
                                       !.done_left = TRUE]
                     e2 == IF is_bust(e1.player_left)
                           THEN [e1 EXCEPT !.reward_left = -4] ELSE e1
                 IN  IF e2.done_right
                     THEN { IF d.exc # "none" THEN d
                            ELSE Out([d.e EXCEPT !.reward_left =
                                        2 * (2 * cmp(score(d.e.player_left),
                                                     score(d.e.dealer)))],
                                     "none")
                            : d \in dealer_play(count_hole(e2)) }
                     ELSE {Out(e2, "none")}
          : o \in draw_counted(e) }

\* action == 2, `elif not(self.done_right)`
double_right(e) ==
    UNION { IF o.exc # "none" THEN {Out(o.e, o.exc)}
            ELSE LET e1 == [o.e EXCEPT !.player_right = Append(@, o.card),
                                       !.done_right = TRUE]
                     e2 == IF is_bust(e1.player_right)
                           THEN [e1 EXCEPT !.reward_right = -4] ELSE e1
                 IN  { IF d.exc # "none" THEN d
                       ELSE Out([d.e EXCEPT
                                   !.reward_left =
                                       2 * (2 * cmp(score(d.e.player_left),
                                                    score(d.e.dealer))),
                                   !.reward_right =
                                       2 * (2 * cmp(score(d.e.player_right),
                                                    score(d.e.dealer)))],
                                "none")
                       : d \in dealer_play(count_hole(e2)) }
          : o \in draw_counted(e) }

\* do_split without `self.count += self.halves[player_card]` for the card
\* drawn to the right hand
do_split_uncounted(e) ==
    IF Len(e.player_left) < 2 THEN {Out(e, "IndexError")}
    ELSE
    LET moved == e.player_left[2]
        e1 == [e EXCEPT
                 !.player_left = SubSeq(@, 1, 1) \o SubSeq(@, 3, Len(@)),
                 !.player_right = Append(@, moved)]
    IN  UNION { IF a.exc # "none" THEN {Out(a.e, a.exc)}
                ELSE { IF b.exc # "none" THEN Out(b.e, b.exc)
                       ELSE Out([b.e EXCEPT
                                   !.player_right = Append(@, b.card),
                                   !.n = 3,
                                   !.split_possible = FALSE,
                                   !.done_right = FALSE], "none")
                       : b \in draw_card([a.e EXCEPT
                                            !.player_left = Append(@, a.card)]) }
              : a \in draw_counted(e1) }

\* do_split without `self.action_space.n = 3`
do_split_keeps_n(e) ==
    IF Len(e.player_left) < 2 THEN {Out(e, "IndexError")}
    ELSE
    LET moved == e.player_left[2]
        e1 == [e EXCEPT
                 !.player_left = SubSeq(@, 1, 1) \o SubSeq(@, 3, Len(@)),
                 !.player_right = Append(@, moved)]
    IN  UNION { IF a.exc # "none" THEN {Out(a.e, a.exc)}
                ELSE { IF b.exc # "none" THEN Out(b.e, b.exc)
                       ELSE Out([b.e EXCEPT
                                   !.player_right = Append(@, b.card),
                                   !.split_possible = FALSE,
                                   !.done_right = FALSE], "none")
                       : b \in draw_counted([a.e EXCEPT
                                               !.player_left = Append(@, a.card)]) }
              : a \in draw_counted(e1) }

\* action == 3: split
do_split(e) ==
    IF Len(e.player_left) < 2 THEN {Out(e, "IndexError")}
    ELSE
    LET moved == e.player_left[2]
        e1 == [e EXCEPT
                 !.player_left = SubSeq(@, 1, 1) \o SubSeq(@, 3, Len(@)),
                 !.player_right = Append(@, moved)]
    IN  UNION { IF a.exc # "none" THEN {Out(a.e, a.exc)}
                ELSE { IF b.exc # "none" THEN Out(b.e, b.exc)
                       ELSE Out([b.e EXCEPT
                                   !.player_right = Append(@, b.card),
                                   !.n = 3,
                                   !.split_possible = FALSE,
                                   !.done_right = FALSE], "none")
                       : b \in draw_counted([a.e EXCEPT
                                               !.player_left = Append(@, a.card)]) }
              : a \in draw_counted(e1) }

\* step_split serving the right hand before the left one
step_split_right_first(e, action) ==
    IF action = 1
    THEN IF ~e.done_right THEN hit_right(e)
         ELSE IF ~e.done_left THEN hit_left(e)
         ELSE {Out(e, "none")}
    ELSE IF action = 0
    THEN IF ~e.done_right THEN stick_right(e)
         ELSE IF ~e.done_left THEN stick_left(e)
         ELSE {Out(e, "none")}
    ELSE IF action = 2
    THEN IF ~e.done_right THEN double_right(e)
         ELSE IF ~e.done_left THEN double_left(e)
         ELSE {Out(e, "none")}
    ELSE IF action = 3 THEN do_split(e)
    ELSE {Out(e, "none")}

\* BlackjackDoubleCountingSplitEnv.step, after the assert on the action
step_split(e, action) ==
    IF action = 1
    THEN IF ~e.done_left THEN hit_left(e)
         ELSE IF ~e.done_right THEN hit_right(e)
         ELSE {Out(e, "none")}
    ELSE IF action = 0
    THEN IF ~e.done_left THEN stick_left(e)
         ELSE IF ~e.done_right THEN stick_right(e)
         ELSE {Out(e, "none")}
    ELSE IF action = 2
    THEN IF ~e.done_left THEN double_left(e)
         ELSE IF ~e.done_right THEN double_right(e)
         ELSE {Out(e, "none")}
    ELSE IF action = 3 THEN do_split(e)
    ELSE {Out(e, "none")}

\* reset_split leaving action_space.n at 4 whatever the player's cards
reset_split_mut(e) ==
    LET e1 == reset_shoe(e)
    IN  UNION { IF d.exc # "none" THEN {Out(d.e, d.exc)}
                ELSE LET e2 == [d.e EXCEPT !.dealer = d.cards,
                                           !.stale_dealer = FALSE,
                                           !.count = @ + halves[d.cards[1]]]
                     IN  { IF p.exc # "none" THEN Out(p.e, p.exc)
                           ELSE LET pair == p.cards[1] = p.cards[2]
                                IN  Out([p.e EXCEPT
                                           !.player_left = p.cards,
                                           !.player_right = <<>>,
                                           !.hands_set = TRUE,
                                           !.count = @ + halves[p.cards[1]]
                                                       + halves[p.cards[2]],
                                           !.done_left = FALSE,
                                           !.done_right = TRUE,
                                           !.reward_left = 0,
                                           !.reward_right = 0,
                                           !.n = 4,
                                           !.split_possible = pair],
                                        "none")
                           : p \in draw_hand(e2) }
              : d \in draw_hand(e1) }

\* BlackjackDoubleCountingSplitEnv.reset
reset_split(e) ==
    LET e1 == reset_shoe(e)
    IN  UNION { IF d.exc # "none" THEN {Out(d.e, d.exc)}
                ELSE LET e2 == [d.e EXCEPT !.dealer = d.cards,
                                           !.stale_dealer = FALSE,
                                           !.count = @ + halves[d.cards[1]]]
                     IN  { IF p.exc # "none" THEN Out(p.e, p.exc)
                           ELSE LET pair == p.cards[1] = p.cards[2]
                                IN  Out([p.e EXCEPT
                                           !.player_left = p.cards,
                                           !.player_right = <<>>,
                                           !.hands_set = TRUE,
                                           !.count = @ + halves[p.cards[1]]
                                                       + halves[p.cards[2]],
                                           !.done_left = FALSE,
                                           !.done_right = TRUE,
                                           !.reward_left = 0,
                                           !.reward_right = 0,
                                           !.n = IF pair THEN 4 ELSE 3,
                                           !.split_possible = pair],
                                        "none")
                           : p \in draw_hand(e2) }
              : d \in draw_hand(e1) }

----------------------------------------------------------------------------
(* The environment object and its driver *)

\* the defaults of the constructor's parameters
DefaultNumDecks == 6

DefaultShuffleOn == 15

\* __init__ of either class
init_env(v, natural, num_decks, shuffle_on) ==
    [ natural |-> natural, num_decks |-> num_decks, shuffle_on |-> shuffle_on,
      deck |-> reset_deck(num_decks), count |-> 0,
      \* single-hand class
      player |-> <<>>, done |-> FALSE,
      \* split class
      player_left |-> <<>>, done_left |-> FALSE, reward_left |-> 0,
      player_right |-> <<>>, done_right |-> TRUE, reward_right |-> 0,
      split_possible |-> FALSE,
      \* both
      dealer |-> <<>>,
      n |-> IF v = "single" THEN 3 ELSE 4,        \* action_space.n
      \* bookkeeping, not fields of the object
      hands_set |-> FALSE,     \* reset() has assigned the hands
      stale_dealer |-> TRUE,   \* self.dealer is not yet the current round's
      fresh |-> reset_deck(num_decks),  \* the shoe as last rebuilt
      hole_n |-> 0,            \* times the current hole card is in count
      live |-> <<>>,           \* cards drawn since the current round began
      seen_before |-> 0,       \* weights of the cards of the rounds that ended
                               \* since the shoe was last rebuilt
      log |-> <<>> ]           \* the draws of the current call

\* the round is over: the terminal flag step() returns
Terminal(e) == IF variant = "single" THEN e.done ELSE e.done_left /\ e.done_right

\* _get_obs: count / math.ceil(len(self.deck) / 52) divides by zero on an
\* empty shoe
get_obs_exc(e) == IF DeckLen(e.deck) = 0 THEN "ZeroDivisionError" ELSE "none"

\* the object as a call finds it, without the previous call's draws
Pre(e) == [e EXCEPT !.log = <<>>]

\* the hand a step acts on
Target(e, action) ==
    IF variant = "single" THEN "player"
    ELSE IF action = 3 THEN "both"
    ELSE IF ~e.done_left THEN "left"
    ELSE IF ~e.done_right THEN "right"
    ELSE "none"

Returned(op, action, hand, reward, terminal, exc, pre) ==
    [op |-> op, action |-> action, hand |-> hand, reward |-> reward,
     terminal |-> terminal, exc |-> exc, pre |-> pre]

\* the object as constructed, and what the driver will do with it
Constructed(v, natural, num_decks, shuffle_on, ncalls, nrounds) ==
    /\ variant = v
    /\ env = init_env(v, natural, num_decks, shuffle_on)
    /\ ret = Returned("init", -1, "none", 0, FALSE, "none", env)
    /\ calls = ncalls
    /\ rounds = nrounds

\* the driver may call: the budget is not used up and no call has raised
CanCall == calls > 0 /\ ret.exc = "none"

\* reset(), called when no round is in progress
Reset ==
    /\ CanCall
    /\ rounds > 0
    /\ ~env.hands_set \/ Terminal(env)
    /\ LET e0 == [Pre(env) EXCEPT !.live = <<>>, !.stale_dealer = TRUE,
                                  !.hole_n = 0,
                                  !.seen_before = @ + SumWeights(env.live,
                                                                 Len(env.live))]
       IN  \E o \in (IF variant = "single" THEN reset_single(e0)
                                            ELSE reset_split(e0)) :
             LET exc == IF o.exc # "none" THEN o.exc ELSE get_obs_exc(o.e)
             IN  /\ env' = o.e
                 /\ ret' = Returned("reset", -1, "none", 0, FALSE, exc,
                                    init_env(variant, env.natural, env.num_decks,
                                             env.shuffle_on))
    /\ calls' = calls - 1
    /\ rounds' = rounds - 1
    /\ UNCHANGED <<variant, rng>>

\* step(action) for an action the action space contains, in a round that
\* has begun and is not over
DoStep(action) ==
    /\ env.hands_set
    /\ ~Terminal(env)
    /\ action \in 0..(env.n - 1)
    /\ LET e0 == Pre(env)
       IN  \E o \in (IF variant = "single" THEN step_single(e0, action)
                     ELSE { Res(x.e, x.exc, x.e.reward_left + x.e.reward_right)
                            : x \in step_split(e0, action) }) :
             LET exc == IF o.exc # "none" THEN o.exc ELSE get_obs_exc(o.e)
             IN  /\ env' = o.e
                 /\ ret' = Returned("step", action, Target(e0, action),
                                    o.reward, Terminal(o.e), exc, e0)
    /\ calls' = calls - 1
    /\ UNCHANGED <<variant, rng, rounds>>

\* step(0)
Stand ==
    /\ CanCall
    /\ DoStep(0)

\* step(1)
Hit ==
    /\ CanCall
    /\ DoStep(1)

\* step(2)
Double ==
    /\ CanCall
    /\ DoStep(2)

\* step(3)
Split ==
    /\ CanCall
    /\ DoStep(3)

\* the action codes a driver may pass
ActionCodes == 0..4

\* step(action) for an action the action space does not contain:
\* `assert self.action_space.contains(action)` fails
Reject ==
    /\ CanCall
    /\ env.hands_set
    /\ ~Terminal(env)
    /\ \E action \in ActionCodes \ (0..(env.n - 1)) :
          ret' = Returned("step", action, "none", 0, FALSE, "AssertionError",
                          Pre(env))
    /\ env' = Pre(env)
    /\ calls' = calls - 1
    /\ UNCHANGED <<variant, rng, rounds>>

\* step(action) called although the round is over: the code has no test for
\* it, the action is asserted and carried out as in any other state
Late ==
    /\ CanCall
    /\ env.hands_set
    /\ Terminal(env)
    /\ LET e0 == Pre(env)
       IN  \E action \in ActionCodes :
             IF action \in 0..(env.n - 1)
             THEN \E o \in (IF variant = "single" THEN step_single(e0, action)
                            ELSE { Res(x.e, x.exc, x.e.reward_left + x.e.reward_right)
                                   : x \in step_split(e0, action) }) :
                    LET exc == IF o.exc # "none" THEN o.exc ELSE get_obs_exc(o.e)
                    IN  /\ env' = o.e
                        /\ ret' = Returned("step", action, Target(e0, action),
                                           o.reward, Terminal(o.e), exc, e0)
             ELSE /\ env' = e0
                  /\ ret' = Returned("step", action, "none", 0, FALSE,
                                     "AssertionError", e0)
    /\ calls' = calls - 1
    /\ UNCHANGED <<variant, rng, rounds>>

----------------------------------------------------------------------------
(* Two objects of one class, seeded alike and driven by the same calls *)

\* In this part env holds both objects (a, b) and the random sources:
\*   global  the values of the module-level source np.random, shared by all
\*           objects of the process, and taken, the number of values drawn
\*           from it so far;
\*   seeded  the values of the source seed() stores in self.np_random, the
\*           same for both objects since they are seeded alike, and own, the
\*           number of values each object has drawn from its self.np_random;
\*   turn    the object to be called next, call the call a received last.
\* ret holds the results each object has returned.

\* the k-th value a source of period StreamLen yields after `taken` values
SourceValue(stream, taken, k) == stream[((taken + k - 1) % StreamLen) + 1]

\* draw_card(self, np_random) pops at np.random.randint(0, len(self.deck)):
\* the values come from the module-level source; its parameter np_random,
\* the object's seeded source, is not used
FromGlobal(log, pair) ==
    \A k \in 1..Len(log) : log[k].card = SourceValue(pair.global, pair.taken, k)

\* the outcomes of reset() or step(action) on the object e, as
\* [e, reward, terminal, exc]
CallOutcomes(e, op, action) ==
    IF op = "reset"
    THEN LET e0 == [Pre(e) EXCEPT !.live = <<>>, !.stale_dealer = TRUE,
                                  !.hole_n = 0,
                                  !.seen_before = @ + SumWeights(e.live, Len(e.live))]
         IN  { [e |-> o.e, reward |-> 0, terminal |-> FALSE, exc |-> o.exc]
               : o \in (IF variant = "single" THEN reset_single(e0)
                        ELSE reset_split(e0)) }
    ELSE IF ~e.hands_set
    THEN {[e |-> Pre(e), reward |-> 0, terminal |-> FALSE, exc |-> "TypeError"]}
    ELSE IF action \notin 0..(e.n - 1)
    THEN {[e |-> Pre(e), reward |-> 0, terminal |-> FALSE,
           exc |-> "AssertionError"]}
    ELSE { [e |-> o.e, reward |-> o.reward, terminal |-> Terminal(o.e),
            exc |-> o.exc]
           : o \in (IF variant = "single" THEN step_single(Pre(e), action)
                    ELSE { Res(x.e, x.exc, x.e.reward_left + x.e.reward_right)
                           : x \in step_split(Pre(e), action) }) }

\* what a call hands back to the driver: the cards it drew, the counter of
\* the observation, the reward and the terminal flag
Handed(op, action, o) ==
    [op |-> op, action |-> action,
     cards |-> [k \in 1..Len(o.e.log) |-> o.e.log[k].card],
     count |-> o.e.count, reward |-> o.reward, terminal |-> o.terminal,
     exc |-> o.exc]

\* the next object receives reset() or step(action): a any call its state
\* allows, b the call a received last
SeededCall(op, action) ==
    /\ LET who == env.turn
           inst == IF who = "a" THEN env.a ELSE env.b
       IN  /\ IF who = "b" THEN env.call = <<op, action>>
              ELSE IF op = "reset"
                   THEN rounds > 0 /\ (~inst.hands_set \/ Terminal(inst))
                   ELSE /\ inst.hands_set
                        /\ ~Terminal(inst)
                        /\ action \in 0..(inst.n - 1)
           /\ \E o \in CallOutcomes(inst, op, action) :
                /\ FromGlobal(o.e.log, env)
                /\ env' = [env EXCEPT
                             !.a = IF who = "a" THEN o.e ELSE @,
                             !.b = IF who = "b" THEN o.e ELSE @,
                             !.taken = @ + Len(o.e.log),
                             !.turn = IF who = "a" THEN "b" ELSE "a",
                             !.call = <<op, action>>]
                /\ ret' = [ret EXCEPT
                             !.a = IF who = "a"
                                   THEN Append(@, Handed(op, action, o)) ELSE @,
                             !.b = IF who = "b"
                                   THEN Append(@, Handed(op, action, o)) ELSE @]
           /\ rounds' = IF who = "a" /\ op = "reset" THEN rounds - 1 ELSE rounds
    /\ calls' = calls - 1
    /\ UNCHANGED <<variant, rng>>

\* reset() on the next object
SeededReset ==
    /\ calls > 0
    /\ SeededCall("reset", -1)

\* step(action) on the next object
SeededStep ==
    /\ calls > 0
    /\ \E action \in 0..3 : SeededCall("step", action)

----------------------------------------------------------------------------
(* The hand functions on their own *)

\* In this part env holds a hand and ret what the hand functions return for it.

\* the hands over the ranks 1..10 of at most MaxHandLen cards
Hands == UNION { [1..n -> Ranks] : n \in 0..MaxHandLen }

\* usable_ace, sum_hand, is_bust and score are applied to the hand
Evaluate ==
    /\ ret.op = "none"
    /\ ret' = [op |-> "score", hand |-> env.hand,
               usable_ace |-> usable_ace(env.hand),
               sum_hand |-> sum_hand(env.hand),
               is_bust |-> is_bust(env.hand),
               score |-> score(env.hand)]
    /\ UNCHANGED <<variant, env, rng, calls, rounds>>

----------------------------------------------------------------------------
(* Specifications *)

\* Rounds of the single-hand class, built with the default shoe
InitSingle ==
    /\ rng \in RankSets
    /\ \E natural \in BOOLEAN :
          Constructed("single", natural, DefaultNumDecks, DefaultShuffleOn,
                      SingleCalls, SingleRounds)

NextSingle == Reset \/ Stand \/ Hit \/ Double \/ Reject

SpecSingle == InitSingle /\ [][NextSingle]_vars

\* Rounds of the split class, built with the default shoe
InitSplit ==
    /\ rng \in RankSets
    /\ \E natural \in BOOLEAN :
          Constructed("split", natural, DefaultNumDecks, DefaultShuffleOn,
                      SplitCalls, SplitRounds)

Next == Reset \/ Stand \/ Hit \/ Double \/ Split \/ Reject

SpecSplit == InitSplit /\ [][Next]_vars

\* Either class with a shoe that is reshuffled within a few draws
Init ==
    /\ rng = {1, 10}
    /\ \E v \in {"single", "split"}, num_decks \in 1..MaxDecks :
          \E s \in 0..MaxSlack :
              Constructed(v, FALSE, num_decks, 52 * num_decks - s,
                          ShoeCalls, ShoeCalls)

Spec == Init /\ [][Next]_vars

\* The single-hand class with one deck and a reshuffle threshold so low that
\* the shoe is dealt down to its last card
InitDrain ==
    /\ rng = {}
    /\ \E shuffle_on \in 0..MaxThreshold :
          Constructed("single", FALSE, 1, shuffle_on, DrainCalls, DrainRounds)

SpecDrain == InitDrain /\ [][NextSingle]_vars

\* Either class with the default shoe, driven by a caller that may go on
\* calling step() when the round is over
InitLate ==
    /\ rng \in {{1, 10}, {6, 10}}
    /\ \E v \in {"single", "split"} :
          Constructed(v, FALSE, DefaultNumDecks, DefaultShuffleOn,
                      LateCalls, LateRounds)

NextLate == Reset \/ Stand \/ Hit \/ Double \/ Split \/ Reject \/ Late

SpecLate == InitLate /\ [][NextLate]_vars

\* Two objects of either class with the default shoe, seeded alike; the state
\* of the module-level source is whatever the process left it in
InitSeeded ==
    /\ variant \in {"single", "split"}
    /\ rng = StreamRanks
    /\ \E global \in [1..StreamLen -> StreamRanks],
          seeded \in [1..StreamLen -> StreamRanks] :
          env = [a |-> init_env(variant, FALSE, DefaultNumDecks, DefaultShuffleOn),
                 b |-> init_env(variant, FALSE, DefaultNumDecks, DefaultShuffleOn),
                 global |-> global, taken |-> 0,
                 seeded |-> seeded, own |-> [a |-> 0, b |-> 0],
                 turn |-> "a", call |-> <<"none", -1>>]
    /\ ret = [a |-> <<>>, b |-> <<>>]
    /\ calls = SeedCalls
    /\ rounds = SeedRounds

NextSeeded == SeededReset \/ SeededStep

SpecSeeded == InitSeeded /\ [][NextSeeded]_vars

\* Any hand, the empty one included
InitHands ==
    /\ variant = "hands"
    /\ rng = Ranks
    /\ \E hand \in Hands : env = [hand |-> hand]
    /\ ret = [op |-> "none"]
    /\ calls = 0
    /\ rounds = 0

NextHands == Evaluate

SpecHands == InitHands /\ [][NextHands]_vars

----------------------------------------------------------------------------
(* Properties *)

\* the last call was reset() or step() and returned
Returns == ret.op \in {"reset", "step"} /\ ret.exc = "none"

\* step(action) returned
Stepped(action) == ret.op = "step" /\ ret.action = action /\ ret.exc = "none"

\* the three-way comparison of two scores, in halves
Compare(a, b) == IF a > b THEN 2 ELSE IF a = b THEN 0 ELSE -2

\* the weights of the cards revealed since the shoe was last rebuilt: the
\* cards of the rounds that ended since, and the cards of the current round
\* without its hole card (the round's second card) until the round is over
RevealedWeight(e) ==
    e.seen_before + SumWeights(e.live, Len(e.live))
        - (IF Terminal(e) THEN 0 ELSE halves[e.live[2]])

\* C1: after every reset() and every step() of a round the running counter is
\* the sum of the weights of the cards revealed since the last reshuffle, each
\* counted once, the hole card only once the round is terminal.
C1_CounterIsRevealedSum == Returns => env.count = RevealedWeight(env)

\* C2: the hole card's weight is in the counter in no state where the round
\* is not terminal, and exactly once in the state that ends the round.
C2_HoleCountedOnceAtEnd ==
    Returns => env.hole_n = (IF Terminal(env) THEN 1 ELSE 0)

\* the draws of the last call that began with a reshuffle
Reshuffles == {i \in 1..Len(env.log) : env.log[i].shuffled}

\* C3: for every reshuffle inside a draw, (weight of the shoe) + counter right
\* after the reshuffle and its correction equals the same sum right before it.
C3_ReshuffleIsCountNeutral ==
    \A i \in Reshuffles : env.log[i].q1 = env.log[i].q0

\* the full composition of a shoe of num_decks decks: 4 suits of the ranks
\* 1..9 and of ten, jack, queen and king
FullShoe(num_decks) ==
    [r \in Ranks |-> IF r = 10 THEN 16 * num_decks ELSE 4 * num_decks]

\* C4: a draw without a reshuffle leaves the shoe one card smaller; a draw
\* with one leaves the full shoe minus the cards dealt so far in the round in
\* progress minus the drawn card.
C4_ShoeAfterDraw ==
    \A i \in 1..Len(env.log) :
        LET d == env.log[i]
        IN  IF d.shuffled
            THEN /\ \A r \in Ranks :
                       d.deck1[r] = FullShoe(env.num_decks)[r] - d.live[r]
                                        - (IF r = d.card THEN 1 ELSE 0)
                 /\ d.n1 = 52 * env.num_decks - SumTo(d.live, 10) - 1
            ELSE d.n1 = d.n0 - 1

\* C5 as stated: a fresh shoe holds every rank 1..10 exactly 4 * num_decks times.
C5_FourPerRank == \A r \in Ranks : env.fresh[r] = 4 * env.num_decks

\* C5, amended: a fresh shoe (at construction and at every rebuild) holds
\* each rank 1..9 exactly 4 * num_decks times and rank 10 exactly
\* 16 * num_decks times.
C5_FreshShoe ==
    /\ \A r \in 1..9 : env.fresh[r] = 4 * env.num_decks
    /\ env.fresh[10] = 16 * env.num_decks
    /\ ret.op = "init" => env.deck = env.fresh

\* a call rebuilt the shoe inside a draw and went on to return
C5_Witness == Returns /\ Reshuffles # {}

\* the total of a hand with an ace taken as 11 when that does not exceed 21
Total(hand) ==
    LET low == SumSeq(hand)
    IN  IF (\E i \in 1..Len(hand) : hand[i] = 1) /\ low + 10 <= 21
        THEN low + 10 ELSE low

\* the score of a hand: 0 when bust
Points(hand) == IF Total(hand) > 21 THEN 0 ELSE Total(hand)

\* the hand is the hand `before` with one card added at its end
OneCardAdded(before, hand) ==
    /\ Len(hand) = Len(before) + 1
    /\ SubSeq(hand, 1, Len(before)) = before

\* step(1) on the right hand of the split class returned with that hand bust
RightHitBust ==
    /\ variant = "split"
    /\ Stepped(1)
    /\ ret.hand = "right"
    /\ Total(env.player_right) > 21

\* C6: when the right hand hits and busts, the hole card is counted; if the
\* left hand is not bust the dealer is played out to 17 or more and the left
\* reward is the comparison of the left score with the dealer's; if the left
\* hand is bust the dealer draws nothing and the left reward stays -1.
C6_RightBustSettlesLeft ==
    RightHitBust =>
        /\ env.hole_n = 1
        /\ IF Total(env.player_left) > 21
           THEN /\ env.dealer = ret.pre.dealer
                /\ env.reward_left = -2
           ELSE /\ Total(env.dealer) >= 17
                /\ env.reward_left =
                       Compare(Points(env.player_left), Points(env.dealer))

\* step(2) on the left hand of the split class returned, no split having
\* happened in the round
LeftDoubled ==
    /\ variant = "split"
    /\ Stepped(2)
    /\ ret.hand = "left"
    /\ ret.pre.done_right

\* C7: DOUBLE on the left hand with the right hand terminal adds one card to
\* the left hand, ends the round, and makes the left reward -2 when the left
\* hand is bust, whatever the dealer does, and twice the comparison of the
\* left score with the dealer's otherwise.
C7_LeftDoubleReward ==
    LeftDoubled =>
        /\ OneCardAdded(ret.pre.player_left, env.player_left)
        /\ ret.terminal
        /\ env.reward_left =
               IF Total(env.player_left) > 21 THEN -4
               ELSE 2 * Compare(Points(env.player_left), Points(env.dealer))

\* C8: DOUBLE in the single-hand class returns, adds exactly one card to the
\* player's hand and ends the round whatever the total; a bust hand is paid -2
\* and the dealer draws nothing; otherwise the dealer plays out to 17 or more
\* and the reward is twice the comparison of the scores, never 1.5.
C8_DoubleSingle ==
    (variant = "single" /\ ret.op = "step" /\ ret.action = 2) =>
        /\ ret.exc = "none"
        /\ OneCardAdded(ret.pre.player, env.player)
        /\ ret.terminal
        /\ env.done
        /\ ret.reward # 3
        /\ IF Total(env.player) > 21
           THEN /\ ret.reward = -4
                /\ env.dealer = ret.pre.dealer
           ELSE /\ Total(env.dealer) >= 17
                /\ Len(env.dealer) > 2 =>
                       Total(SubSeq(env.dealer, 1, Len(env.dealer) - 1)) < 17
                /\ ret.reward =
                       2 * Compare(Points(env.player), Points(env.dealer))

\* player [5, 6] doubles, draws a 5 and stays under 17; the dealer draws and
\* busts, and the doubled hand is paid 2
C8_Witness ==
    /\ variant = "single"
    /\ Stepped(2)
    /\ ret.pre.player = <<5, 6>>
    /\ Total(env.player) < 17
    /\ ret.terminal
    /\ Len(env.dealer) > 2
    /\ ret.reward = 4

\* the hand is a natural: two cards, an ace and a ten
TwoCard21(hand) == Len(hand) = 2 /\ {hand[1], hand[2]} = {1, 10}

\* C9: STAND in the single-hand class returns, ends the round with the dealer
\* played out to 17 or more, and pays the comparison of the player's score
\* with the dealer's, except 1.5 exactly when the natural flag is on, the
\* player holds a natural and the comparison is a win.
C9_StandSingle ==
    (variant = "single" /\ ret.op = "step" /\ ret.action = 0) =>
        /\ ret.exc = "none"
        /\ ret.terminal
        /\ env.done
        /\ env.player = ret.pre.player
        /\ Total(env.dealer) >= 17
        /\ LET c == Compare(Points(env.player), Points(env.dealer))
           IN  ret.reward = IF env.natural /\ TwoCard21(env.player) /\ c = 2
                            THEN 3 ELSE c

\* a natural stands against a dealer who has no natural and is paid 1.5
C9_Witness ==
    /\ variant = "single"
    /\ Stepped(0)
    /\ env.natural
    /\ TwoCard21(env.player)
    /\ ret.reward = 3

\* STAND returned in the single-hand class with natural on, from player
\* [10, 10] against a dealer showing 6 with a 10 in the hole
StoodOnTwenty ==
    /\ variant = "single"
    /\ env.natural
    /\ Stepped(0)
    /\ ret.pre.player = <<10, 10>>
    /\ ret.pre.dealer = <<6, 10>>

\* C10 as stated: with natural on, STAND from player [10, 10] against dealer
\* [6, 10] is paid 1.5 and ends the round, whatever the dealer draws.
C10_TwentyPaidAsNatural ==
    StoodOnTwenty => ret.reward = 3 /\ ret.terminal

\* C10, amended: with natural on, STAND from player [10, 10] against dealer
\* [6, 10] ends the round and is paid the plain comparison of 20 with the
\* dealer's final score, never 1.5: [10, 10] is not a natural.
C10_TwentyPaidPlain ==
    StoodOnTwenty =>
        /\ ret.terminal
        /\ Len(env.dealer) = 3
        /\ ret.reward = Compare(20, Points(env.dealer))
        /\ ret.reward # 3

\* the dealer draws a 5 to 21 and the 20 loses
C10_Witness == StoodOnTwenty /\ env.dealer = <<6, 10, 5>> /\ ret.reward = -2

\* step() returned in the split class
SplitStepped == variant = "split" /\ ret.op = "step" /\ ret.exc = "none"

\* C11: in the split class split_possible is false in every state reached
\* after a step() of the round, and SPLIT is no longer in the action space.
C11_NoSplitAfterStep ==
    SplitStepped => ~env.split_possible /\ env.n = 3

\* step(3) was called as the first action of a round of the split class that
\* began with a pair
FirstSplit ==
    /\ variant = "split"
    /\ ret.op = "step"
    /\ ret.action = 3
    /\ ret.pre.split_possible
    /\ Len(ret.pre.live) = 4

\* C12: after reset() of the split class split_possible is true, and 3 is in
\* the action space, exactly when the two player cards are of equal rank; a
\* SPLIT taken first returns with split_possible false, the left hand its first
\* card and a drawn card, the right hand the second card and a drawn card,
\* both drawn cards in the counter and out of the shoe, the round not terminal.
C12_SplitDealsTwoHands ==
    /\ (variant = "split" /\ ret.op = "reset" /\ ret.exc = "none") =>
           LET pair == env.player_left[1] = env.player_left[2]
           IN  /\ Len(env.player_left) = 2
               /\ env.split_possible <=> pair
               /\ env.n = (IF pair THEN 4 ELSE 3)
    /\ FirstSplit =>
           /\ ret.exc = "none"
           /\ ~env.split_possible
           /\ Len(env.live) = 6
           /\ env.player_left = <<ret.pre.player_left[1], env.live[5]>>
           /\ env.player_right = <<ret.pre.player_left[2], env.live[6]>>
           /\ env.count = ret.pre.count + halves[env.live[5]] + halves[env.live[6]]
           /\ DeckLen(env.deck) = DeckLen(ret.pre.deck) - 2
           /\ ~ret.terminal
           /\ ~env.done_left /\ ~env.done_right

\* a pair of tens was split and the two hands drew different cards
C12_Witness ==
    /\ FirstSplit
    /\ ret.exc = "none"
    /\ ret.pre.player_left = <<10, 10>>
    /\ env.player_left[2] # env.player_right[2]

\* step(3) was called in the split class after a SPLIT of the same round
SplitAgain ==
    /\ variant = "split"
    /\ ret.op = "step"
    /\ ret.action = 3
    /\ ret.pre.player_right # <<>>

\* C13: after a SPLIT and before the next reset() action code 3 is rejected
\* and changes nothing, also when a hand is again a pair of equal rank; so a
\* round has at most one SPLIT.
C13_NoResplit ==
    /\ SplitAgain => ret.exc = "AssertionError" /\ env = ret.pre
    /\ (variant = "split" /\ env.player_right # <<>>) => env.n = 3

\* a second SPLIT was refused while the left hand was a pair again
C13_Witness ==
    /\ SplitAgain
    /\ ret.exc = "AssertionError"
    /\ Len(ret.pre.player_left) = 2
    /\ ret.pre.player_left[1] = ret.pre.player_left[2]
    /\ ~ret.pre.done_left

\* step(0), step(1) or step(2) returned in the split class after a SPLIT
SteppedAfterSplit ==
    /\ SplitStepped
    /\ ret.action \in {0, 1, 2}
    /\ ret.pre.player_right # <<>>

\* C14: after a SPLIT a HIT, STAND or DOUBLE acts on the left hand while the
\* left hand is not terminal: the right hand's cards and done_right change
\* only when done_left was true, and once done_left is true the left hand's
\* cards stay as they are.
C14_LeftBeforeRight ==
    SteppedAfterSplit =>
        IF ~ret.pre.done_left
        THEN /\ env.player_right = ret.pre.player_right
             /\ env.done_right = ret.pre.done_right
             /\ ret.action = 1 => OneCardAdded(ret.pre.player_left, env.player_left)
             /\ ret.action = 2 =>
                    OneCardAdded(ret.pre.player_left, env.player_left) /\ env.done_left
             /\ ret.action = 0 =>
                    env.player_left = ret.pre.player_left /\ env.done_left
        ELSE /\ env.done_left
             /\ env.player_left = ret.pre.player_left
             /\ ret.action = 1 => OneCardAdded(ret.pre.player_right, env.player_right)
             /\ ret.action = 2 =>
                    OneCardAdded(ret.pre.player_right, env.player_right)
                        /\ env.done_right
             /\ ret.action = 0 =>
                    env.player_right = ret.pre.player_right /\ env.done_right

\* after a SPLIT the left hand stood and a HIT then went to the right hand,
\* which is still in play
C14_Witness ==
    /\ SteppedAfterSplit
    /\ ret.action = 1
    /\ ret.pre.done_left
    /\ Len(env.player_right) = 3
    /\ ~env.done_right

\* the action codes the class accepts in a state: 0, 1, 2 and, in the split
\* class while a split is offered, 3
LegalCodes(e) == IF variant = "split" /\ e.split_possible THEN 0..3 ELSE 0..2

\* step() was called with a code outside the legal set
IllegalStep == ret.op = "step" /\ ret.action \notin LegalCodes(ret.pre)

\* C15: step() with an action code outside the legal set is rejected and
\* leaves the shoe, the counter, the hands, the done flags and the pending
\* rewards as they were.
C15_IllegalRejected ==
    IllegalStep => ret.exc = "AssertionError" /\ env = ret.pre

\* the split class refused SPLIT in a round that did not begin with a pair
C15_Witness ==
    /\ IllegalStep
    /\ variant = "split"
    /\ ret.action = 3
    /\ ret.exc = "AssertionError"
    /\ ret.pre.player_right = <<>>
    /\ ret.pre.player_left[1] # ret.pre.player_left[2]

\* step() was called although the round was over
LateStep == ret.op = "step" /\ Terminal(ret.pre)

\* C16: a step() made while the round is terminal is rejected or leaves the
\* shoe and the running counter unchanged.
C16_LateStepKeepsShoe ==
    LateStep =>
        \/ ret.exc = "AssertionError"
        \/ env.deck = ret.pre.deck /\ env.count = ret.pre.count

\* C17: two objects built alike, seeded alike and given the same calls hand
\* back the same cards, observations, rewards and terminal flags, call by call.
C17_SeededRunsAgree ==
    \A k \in 1..Len(ret.b) : ret.a[k] = ret.b[k]

\* C18 as stated: for every hand, the empty one included, score(hand) is 0
\* exactly when the hand's total is above 21, and is the total otherwise.
C18_ZeroIffBust ==
    ret.op = "score" =>
        /\ ret.score = 0 <=> Total(ret.hand) > 21
        /\ Total(ret.hand) <= 21 => ret.score = Total(ret.hand)

\* C18, amended: score(hand) is 0 when the hand's total is above 21 and the
\* total otherwise; it is 0 exactly for the bust hands and the empty hand,
\* whose total is 0.
C18_ScoreIsTotalOrZero ==
    ret.op = "score" =>
        /\ ret.sum_hand = Total(ret.hand)
        /\ ret.score = (IF Total(ret.hand) > 21 THEN 0 ELSE Total(ret.hand))
        /\ ret.score = 0 <=> (Total(ret.hand) > 21 \/ ret.hand = <<>>)

\* the empty hand was scored 0 without being bust
C18_Witness ==
    /\ ret.op = "score"
    /\ ret.hand = <<>>
    /\ ret.score = 0
    /\ ~ret.is_bust

\* a call returned and left a round in progress
InProgress == Returns /\ env.hands_set /\ ~Terminal(env)

\* C19: while the round is not terminal the dealer holds exactly the two
\* cards dealt at reset: the dealer draws nothing before every player hand is
\* resolved.
C19_DealerWaits ==
    InProgress =>
        /\ Len(env.dealer) = 2
        /\ env.dealer = <<env.live[1], env.live[2]>>

\* after a SPLIT the left hand stood; the right hand is pending and the
\* dealer, below 17, has drawn nothing
C19_Witness ==
    /\ InProgress
    /\ variant = "split"
    /\ ret.op = "step"
    /\ ret.action = 0
    /\ env.done_left
    /\ ~env.done_right
    /\ sum_hand(env.dealer) < 17

\* STAND returned in the single-hand class, or DOUBLE returned with the
\* player's hand not bust: the dealer was played out
PlayedOut ==
    /\ variant = "single"
    /\ \/ Stepped(0)
       \/ Stepped(2) /\ Total(env.player) <= 21

\* C20: a dealer play-out draws exactly while the dealer's total, a usable
\* ace counted as 11, is below 17 and never at 17 or more, soft 17 included;
\* it ends after at most 15 draws with a total from 17 to 26; so in every
\* terminal state of the single-hand class the player is bust or the dealer's
\* total is at least 17.
C20_DealerStopsAt17 ==
    /\ PlayedOut =>
           /\ SubSeq(env.dealer, 1, 2) = ret.pre.dealer
           /\ \A k \in 2..(Len(env.dealer) - 1) :
                  Total(SubSeq(env.dealer, 1, k)) < 17
           /\ Total(env.dealer) \in 17..26
           /\ Len(env.dealer) - 2 <= 15
    /\ (variant = "single" /\ Returns /\ env.hands_set /\ Terminal(env)) =>
           Total(env.player) > 21 \/ Total(env.dealer) >= 17

\* the dealer held ace and six, a soft 17, and drew nothing
C20_Witness ==
    /\ PlayedOut
    /\ ret.action = 0
    /\ ret.pre.dealer = <<1, 6>>
    /\ env.dealer = <<1, 6>>

\* what a hand that went bust on the step just taken loses, in halves:
\* 1 on a HIT, 2 on a DOUBLE
BustLoss == IF ret.action = 2 THEN -4 ELSE -2

\* C21: a player hand that has gone bust loses whatever the dealer does: its
\* reward is -1, or -2 after a DOUBLE, from the step on which it went bust to
\* the terminal state of the round, also when the dealer goes bust while
\* being played out for the other hand.
C21_BustHandLoses ==
    /\ (variant = "single" /\ ret.op = "step" /\ ret.exc = "none"
            /\ Total(env.player) > 21) =>
           ret.terminal /\ ret.reward = BustLoss
    /\ (SplitStepped /\ Total(env.player_left) > 21) =>
           env.reward_left = IF ret.pre.done_left THEN ret.pre.reward_left
                             ELSE BustLoss
    /\ (SplitStepped /\ Total(env.player_right) > 21) =>
           env.reward_right = IF ret.pre.done_right THEN ret.pre.reward_right
                              ELSE BustLoss

\* C22: a step() that returns terminal = false returns reward 0.
C22_NoRewardBeforeEnd ==
    (ret.op = "step" /\ ret.exc = "none" /\ ~ret.terminal) => ret.reward = 0

\* C23: no draw is attempted on an empty shoe, and the shoe is not empty when
\* the observation of a call is computed, so that the divisor
\* ceil(shoe size / 52) is at least 1.
C23_ShoeNeverEmpty ==
    ret.op \in {"reset", "step"} =>
        /\ ~(ret.exc = "ValueError" /\ DeckLen(env.deck) = 0)
        /\ ret.exc # "ZeroDivisionError"
        /\ ret.exc = "none" => DeckLen(env.deck) >= 1

====
